---- MODULE Spec2Model ----
(***************************************************************************)
(* A model of nixery's two-tier build cache (server/builder/cache.go):     *)
(* the LocalCache (manifest files under mdir guarded by mmtx, the layer    *)
(* map lcache guarded by lmtx), the GCS bucket behind it, and the four     *)
(* operations manifestFromCache, cacheManifest, layerFromCache and         *)
(* cacheLayer, each call running on a goroutine of its own, together with  *)
(* the goroutines they start with `go`.                                    *)
(***************************************************************************)
EXTENDS Integers, Sequences, FiniteSets, TLC

\* The cache operations of one behaviour: any two of them, one after the
\* other or concurrently, and the goroutines they start.
Calls == {1, 2}

Keys == {"k1", "k2"}

\* Length in bytes of the manifest payloads.
MaxLen == 2

\* Manifest payloads (json.RawMessage): byte strings that differ in their
\* last byte only.
Payload(x) == [i \in 1..MaxLen |-> IF i = MaxLen THEN x ELSE 1]
P1 == Payload(2)
P2 == Payload(3)
Payloads == {P1, P2}

\* manifest.Entry values stored as layer builds.
E1 == [hash |-> 1, size |-> 1]
E2 == [hash |-> 2, size |-> 2]
Entries == {E1, E2}

\* The zero manifest.Entry (`var entry manifest.Entry`).
ZeroEntry == [hash |-> 0, size |-> 0]

\* The nil json.RawMessage.
Nil == <<>>

\* json.Marshal(&entry): an object, bytes 123 and 125 being the braces.
Marshal(e) == <<123, e.hash, e.size, 125>>

\* json.Unmarshal(b, &entry): anything that is not a complete object is an
\* error.
Unmarshal(b) ==
    IF Len(b) = 4 /\ b[1] = 123 /\ b[4] = 125
    THEN [ok |-> TRUE, entry |-> [hash |-> b[2], size |-> b[3]]]
    ELSE [ok |-> FALSE, entry |-> ZeroEntry]

\* A truncated object, as a bucket may hold it.
Garbage == <<123, 1>>

\* A map (directory, bucket namespace, Go map) with k bound to v.
Put(f, k, v) == [x \in (DOMAIN f) \cup {k} |-> IF x = k THEN v ELSE f[x]]

EmptyMap == [x \in {} |-> Nil]

VARIABLES
    mfile,      \* the files under mdir: file name (key) -> bytes
    lcache,     \* LocalCache.lcache: key -> manifest.Entry
    mmtx,       \* LocalCache.mmtx: [w: the write holder or {}, r: the read holders]
    lmtx,       \* LocalCache.lmtx
    bucketM,    \* the bucket's objects under manifests/: key -> bytes
    bucketL,    \* the bucket's objects under builds/: key -> bytes
    call,       \* the cache operations: one goroutine each
    task,       \* the goroutine call c started with `go`, if any
    seedM,      \* the bucket's manifests/ objects at start (history)
    seedL       \* the bucket's builds/ objects at start (history)

vars == <<mfile, lcache, mmtx, lmtx, bucketM, bucketL, call, task, seedM, seedL>>

\* Lock holders: the goroutine of call c, or the goroutine call c started.
CallG(c) == <<"call", c>>

\* Mutant of TaskG: no `go`, the local write runs on the caller's goroutine.
TaskG_Inline(c) == CallG(c)

TaskG(c) == <<"task", c>>

FreeMutex == [w |-> {}, r |-> {}]

\* Mutant of CanLock: a writer does not wait for the readers inside.
CanLock_NoReaders(mtx) == mtx.w = {}

\* Mutant of CanRLock: one lock for both regions, a reader waiting for the
\* writers of either.
CanRLock_Global(mtx) == mmtx.w = {} /\ lmtx.w = {}

\* sync.RWMutex
CanRLock(mtx) == mtx.w = {}
CanLock(mtx) == mtx.w = {} /\ mtx.r = {}
RLock(mtx, g) == [mtx EXCEPT !.r = @ \cup {g}]

\* Mutant of RUnlock: the read lock is kept on return.
RUnlock_Forgotten(mtx, g) == mtx

\* Mutant of Unlock: the write lock is kept on return.
Unlock_Forgotten(mtx, g) == mtx

RUnlock(mtx, g) == [mtx EXCEPT !.r = @ \ {g}]
Lock(mtx, g) == [mtx EXCEPT !.w = {g}]
Unlock(mtx, g) == [mtx EXCEPT !.w = @ \ {g}]

IdleCall ==
    [pc |-> "idle", op |-> "none", key |-> "none", argM |-> Nil,
     argL |-> ZeroEntry, found |-> FALSE, retM |-> Nil, retL |-> ZeroEntry,
     trace |-> <<>>, returned |-> {}, settled |-> {}]

NoTask ==
    [pc |-> "none", kind |-> "none", key |-> "none", m |-> Nil,
     e |-> ZeroEntry, res |-> "none"]

\* The bucket as the process finds it, <<manifests/, builds/>>: empty, or with
\* one object under key k1 that this or another instance cached earlier (a
\* builds/ object may be truncated).
Seeds ==
    {<<EmptyMap, EmptyMap>>}
    \cup {<<Put(EmptyMap, "k1", p), EmptyMap>> : p \in Payloads}
    \cup {<<EmptyMap, Put(EmptyMap, "k1", b)>> : b \in {Marshal(E1), Garbage}}

\* NewCache: an existing (here empty) directory and a fresh map.
Init ==
    /\ mfile = EmptyMap
    /\ lcache = EmptyMap
    /\ mmtx = FreeMutex
    /\ lmtx = FreeMutex
    /\ \E s \in Seeds :
         /\ bucketM = s[1]
         /\ bucketL = s[2]
         /\ seedM = s[1]
         /\ seedL = s[2]
    /\ call = [c \in Calls |-> IdleCall]
    /\ task = [c \in Calls |-> NoTask]

\* The calls that have returned, and those among them that left no goroutine
\* running.
Returned == {d \in Calls : call[d].pc = "done"}
Settled == {d \in Returned : task[d].pc \in {"none", "done"}}

Log(c, evs) == [call[c] EXCEPT !.trace = @ \o evs]

\* Mutant of ManifestTask: the local write goes to the file of another key.
ManifestTask_WrongKey(k, m) ==
    [pc |-> "ready", kind |-> "manifest", key |-> CHOOSE x \in Keys : x # k,
     m |-> m, e |-> ZeroEntry, res |-> "none"]

\* The goroutine started by `go s.Cache.localCacheManifest(key, m)`.
ManifestTask(k, m) ==
    [pc |-> "ready", kind |-> "manifest", key |-> k, m |-> m,
     e |-> ZeroEntry, res |-> "none"]

\* The goroutine started by `go s.Cache.localCacheLayer(key, entry)`.
LayerTask(k, e) ==
    [pc |-> "ready", kind |-> "layer", key |-> k, m |-> Nil,
     e |-> e, res |-> "none"]

\* What every action that touches neither tier leaves alone.
History == <<seedM, seedL>>
Tiers == <<mfile, lcache, bucketM, bucketL>>

(***************************************************************************)
(* Invocations.  Calls are numbered in the order they are issued; a call   *)
(* records which earlier calls had returned (and settled) when it began.   *)
(***************************************************************************)
CanInvoke(c) ==
    /\ call[c].pc = "idle"
    /\ \A d \in Calls : d < c => call[d].pc # "idle"

Begin(op, k, pc) ==
    [IdleCall EXCEPT !.pc = pc, !.op = op, !.key = k,
                     !.returned = Returned, !.settled = Settled]

\* manifestFromCache(ctx, s, key) is called.
InvokeManifestFromCache(c) ==
    /\ CanInvoke(c)
    /\ \E k \in Keys :
         call' = [call EXCEPT ![c] = Begin("manifestFromCache", k, "m_rlock")]
    /\ UNCHANGED <<Tiers, mmtx, lmtx, task, History>>

\* cacheManifest(ctx, s, key, m) is called and runs its first statement,
\* `go s.Cache.localCacheManifest(key, m)`.
InvokeCacheManifest(c) ==
    /\ CanInvoke(c)
    /\ \E k \in Keys, m \in Payloads :
         /\ call' = [call EXCEPT ![c] =
                       [Begin("cacheManifest", k, "m_put")
                          EXCEPT !.argM = m, !.trace = <<"go">>]]
         /\ task' = [task EXCEPT ![c] = ManifestTask(k, m)]
    /\ UNCHANGED <<Tiers, mmtx, lmtx, History>>

\* layerFromCache(ctx, s, key) is called.
InvokeLayerFromCache(c) ==
    /\ CanInvoke(c)
    /\ \E k \in Keys :
         call' = [call EXCEPT ![c] = Begin("layerFromCache", k, "l_rlock")]
    /\ UNCHANGED <<Tiers, mmtx, lmtx, task, History>>

\* cacheLayer(ctx, s, key, entry) is called.
InvokeCacheLayer(c) ==
    /\ CanInvoke(c)
    /\ \E k \in Keys, e \in Entries :
         call' = [call EXCEPT ![c] =
                    [Begin("cacheLayer", k, "l_lock") EXCEPT !.argL = e]]
    /\ UNCHANGED <<Tiers, mmtx, lmtx, task, History>>

(***************************************************************************)
(* LocalCache.manifestFromLocalCache                                       *)
(***************************************************************************)
\* c.mmtx.RLock()
ManifestFromLocalCache_RLock(c) ==
    /\ call[c].pc = "m_rlock"
    /\ CanRLock(mmtx)
    /\ mmtx' = RLock(mmtx, CallG(c))
    /\ call' = [call EXCEPT ![c].pc = "m_read"]
    /\ UNCHANGED <<Tiers, lmtx, task, History>>

\* os.Open(c.mdir + key) and ioutil.ReadAll(f), the file system answering o:
\* what is returned and what is logged.
ReadLocalManifest(files, k, o) ==
    IF k \notin DOMAIN files
    THEN [found |-> FALSE, m |-> Nil, evs |-> <<"open.enoent", "log.debug">>]
    ELSE IF o = "open.err"
    THEN [found |-> FALSE, m |-> Nil, evs |-> <<"open.err", "log.debug">>]
    ELSE IF o = "readall.err"
    THEN [found |-> FALSE, m |-> Nil, evs |-> <<"readall.err", "log.error">>]
    ELSE [found |-> TRUE, m |-> files[k], evs |-> <<"local.hit">>]

\* Mutant of AfterLocalLookup: the result of the local lookup is ignored and
\* the bucket is asked in any case.
AfterLocalLookup_Ignore(cached, hit, miss) == miss

\* manifestFromCache's `if m, cached := ...; cached { return m, true }`.
AfterLocalLookup(cached, hit, miss) == IF cached THEN hit ELSE miss

\* The read under the lock, the deferred RUnlock, and the caller's branch.
ManifestFromLocalCache_Read(c) ==
    /\ call[c].pc = "m_read"
    /\ \E o \in {"ok", "open.err", "readall.err"} :
         LET r == ReadLocalManifest(mfile, call[c].key, o) IN
         call' = [call EXCEPT ![c] =
                    [Log(c, r.evs) EXCEPT
                       !.pc = AfterLocalLookup(r.found, "done", "m_probe"),
                       !.found = r.found,
                       !.retM = r.m]]
    /\ mmtx' = RUnlock(mmtx, CallG(c))
    /\ UNCHANGED <<Tiers, lmtx, task, History>>

(***************************************************************************)
(* manifestFromCache, after the local miss                                 *)
(***************************************************************************)
\* obj.Attrs(ctx), the bucket answering o.
Attrs(bucket, k, o) ==
    IF k \notin DOMAIN bucket THEN "probe.absent"
    ELSE IF o = "err" THEN "probe.err"
    ELSE "probe.ok"

\* Mutant of AfterProbe: the probe's error is handed to the caller instead of
\* being turned into not-found.
AfterProbe_Raise(a, next) == IF a = "probe.ok" THEN next ELSE "raised"

\* `if err != nil { return nil, false }` after the probe.
AfterProbe(a, next) == IF a = "probe.ok" THEN next ELSE "done"

ManifestFromCache_Probe(c) ==
    /\ call[c].pc = "m_probe"
    /\ \E o \in {"ok", "err"} :
         LET a == Attrs(bucketM, call[c].key, o) IN
         call' = [call EXCEPT ![c] =
                    [Log(c, <<a>>) EXCEPT !.pc = AfterProbe(a, "m_get")]]
    /\ UNCHANGED <<Tiers, mmtx, lmtx, task, History>>

\* Mutant of WriteBack: the `go` statement is missing.
WriteBack_Never(ok, k, m) == NoTask

\* Mutant of WriteBack: the `go` statement comes before the error checks.
WriteBack_Always(ok, k, m) == ManifestTask(k, m)

\* The goroutine manifestFromCache starts once the bucket's bytes are read.
WriteBack(ok, k, m) == IF ok THEN ManifestTask(k, m) ELSE NoTask

\* obj.NewReader(ctx), ioutil.ReadAll(r), and on success the `go` statement
\* and the return.
ManifestFromCache_Get(c) ==
    /\ call[c].pc = "m_get"
    /\ \E o \in {"ok", "newreader.err", "bucket.readall.err"} :
         LET k == call[c].key
             ok == o = "ok"
             m == IF ok THEN bucketM[k] ELSE Nil
             evs == IF ok THEN <<"bucket.read", "go", "log.info">>
                          ELSE <<o, "log.error">>
         IN /\ call' = [call EXCEPT ![c] =
                          [Log(c, evs) EXCEPT
                             !.pc = "done", !.found = ok, !.retM = m]]
            /\ task' = [task EXCEPT ![c] = WriteBack(ok, k, m)]
    /\ UNCHANGED <<Tiers, mmtx, lmtx, History>>

(***************************************************************************)
(* cacheManifest, after the `go` statement                                 *)
(***************************************************************************)
\* Mutant of BucketWrite: the writer is never closed, so nothing is committed.
BucketWrite_Lost(bucket, k, b, o) == bucket

\* Mutant of BucketWrite: the writer is closed without the bytes copied.
BucketWrite_Empty(bucket, k, b, o) ==
    IF o = "ok" THEN Put(bucket, k, <<>>) ELSE bucket

\* Mutant of BucketWrite: an object that exists is kept, the first writer
\* winning.
BucketWrite_FirstWins(bucket, k, b, o) ==
    IF o = "ok" /\ k \notin DOMAIN bucket THEN Put(bucket, k, b) ELSE bucket

\* io.Copy(w, r) and w.Close(): the object is replaced when both succeed.
BucketWrite(bucket, k, b, o) == IF o = "ok" THEN Put(bucket, k, b) ELSE bucket

CacheManifest_Put(c) ==
    /\ call[c].pc = "m_put"
    /\ \E o \in {"ok", "copy.err", "close.err"} :
         /\ bucketM' = BucketWrite(bucketM, call[c].key, call[c].argM, o)
         /\ call' = [call EXCEPT ![c] =
                       [Log(c, IF o = "ok" THEN <<"bucket.write", "log.info">>
                                           ELSE <<o, "log.error">>)
                          EXCEPT !.pc = "done"]]
    /\ UNCHANGED <<mfile, lcache, bucketL, mmtx, lmtx, task, History>>

(***************************************************************************)
(* LocalCache.localCacheManifest, on the goroutine started for it          *)
(***************************************************************************)
\* c.mmtx.Lock()
LocalCacheManifest_Lock(c) ==
    /\ task[c].pc = "ready"
    /\ task[c].kind = "manifest"
    /\ CanLock(mmtx)
    /\ mmtx' = Lock(mmtx, TaskG(c))
    /\ task' = [task EXCEPT ![c].pc = "locked"]
    /\ UNCHANGED <<Tiers, lmtx, call, History>>

\* ioutil.WriteFile opens the file with O_CREATE|O_TRUNC.
OpenTrunc(files, k, o) == IF o = "ok" THEN Put(files, k, <<>>) ELSE files

\* ioutil.WriteFile, first half: the open.  When it fails the error is logged
\* and the deferred Unlock runs.
LocalCacheManifest_Open(c) ==
    /\ task[c].pc = "locked"
    /\ task[c].kind = "manifest"
    /\ \E o \in {"ok", "err"} :
         /\ mfile' = OpenTrunc(mfile, task[c].key, o)
         /\ IF o = "ok"
            THEN /\ task' = [task EXCEPT ![c].pc = "opened"]
                 /\ mmtx' = mmtx
            ELSE /\ task' = [task EXCEPT ![c].pc = "done", ![c].res = "open.err"]
                 /\ mmtx' = Unlock(mmtx, TaskG(c))
    /\ UNCHANGED <<lcache, bucketM, bucketL, lmtx, call, History>>

\* Mutant of WriteBytes: a short write goes unnoticed, the last byte missing.
WriteBytes_Short(files, k, m, n) ==
    Put(files, k, SubSeq(m, 1, IF n = Len(m) THEN n - 1 ELSE n))

\* f.Write(data) having written the first n bytes.
WriteBytes(files, k, m, n) == Put(files, k, SubSeq(m, 1, n))

\* ioutil.WriteFile, second half: the write (all of the bytes, or an error
\* after some of them), then the deferred Unlock.
LocalCacheManifest_Write(c) ==
    /\ task[c].pc = "opened"
    /\ \E n \in 0..Len(task[c].m) :
         /\ mfile' = WriteBytes(mfile, task[c].key, task[c].m, n)
         /\ task' = [task EXCEPT
                       ![c].pc = "done",
                       ![c].res = IF n = Len(task[c].m) THEN "ok" ELSE "write.err"]
    /\ mmtx' = Unlock(mmtx, TaskG(c))
    /\ UNCHANGED <<lcache, bucketM, bucketL, lmtx, call, History>>

(***************************************************************************)
(* LocalCache.layerFromLocalCache                                          *)
(***************************************************************************)
\* c.lmtx.RLock()
LayerFromLocalCache_RLock(c) ==
    /\ call[c].pc = "l_rlock"
    /\ CanRLock(lmtx)
    /\ lmtx' = RLock(lmtx, CallG(c))
    /\ call' = [call EXCEPT ![c].pc = "l_read"]
    /\ UNCHANGED <<Tiers, mmtx, task, History>>

\* Mutant of Lookup: the key is not used, any cached entry is returned.
Lookup_AnyKey(cache, k) ==
    IF DOMAIN cache # {}
    THEN [ok |-> TRUE, e |-> cache[CHOOSE x \in DOMAIN cache : TRUE]]
    ELSE [ok |-> FALSE, e |-> ZeroEntry]

\* `e, ok := c.lcache[key]`
Lookup(cache, k) ==
    IF k \in DOMAIN cache THEN [ok |-> TRUE, e |-> cache[k]]
                          ELSE [ok |-> FALSE, e |-> ZeroEntry]

\* The lookup, c.lmtx.RUnlock(), and layerFromCache's branch on the result.
LayerFromLocalCache_Read(c) ==
    /\ call[c].pc = "l_read"
    /\ LET r == Lookup(lcache, call[c].key) IN
       call' = [call EXCEPT ![c] =
                  [Log(c, IF r.ok THEN <<"local.hit">> ELSE <<"local.miss">>)
                     EXCEPT !.pc = AfterLocalLookup(r.ok, "done", "l_probe"),
                            !.found = r.ok,
                            !.retL = r.e]]
    /\ lmtx' = RUnlock(lmtx, CallG(c))
    /\ UNCHANGED <<Tiers, mmtx, task, History>>

(***************************************************************************)
(* layerFromCache, after the local miss                                    *)
(***************************************************************************)
LayerFromCache_Probe(c) ==
    /\ call[c].pc = "l_probe"
    /\ \E o \in {"ok", "err"} :
         LET a == Attrs(bucketL, call[c].key, o) IN
         call' = [call EXCEPT ![c] =
                    [Log(c, <<a>>) EXCEPT !.pc = AfterProbe(a, "l_get")]]
    /\ UNCHANGED <<Tiers, mmtx, lmtx, task, History>>

\* obj.NewReader, io.Copy into the buffer and json.Unmarshal, the bucket
\* answering o: the entry, and what is logged.
ReadBucketLayer(bucket, k, o) ==
    IF o # "ok"
    THEN [ok |-> FALSE, e |-> ZeroEntry, evs |-> <<o, "log.error">>]
    ELSE IF ~Unmarshal(bucket[k]).ok
    THEN [ok |-> FALSE, e |-> ZeroEntry, evs |-> <<"bucket.read", "unmarshal.err", "log.error">>]
    ELSE [ok |-> TRUE, e |-> Unmarshal(bucket[k]).entry, evs |-> <<"bucket.read", "go">>]

\* Mutant of LayerWriteBack: the `go` statement comes before the error checks.
LayerWriteBack_Always(ok, k, e) == LayerTask(k, e)

\* The goroutine layerFromCache starts once the entry is decoded.
LayerWriteBack(ok, k, e) == IF ok THEN LayerTask(k, e) ELSE NoTask

LayerFromCache_Get(c) ==
    /\ call[c].pc = "l_get"
    /\ \E o \in {"ok", "newreader.err", "bucket.copy.err"} :
         LET k == call[c].key
             r == ReadBucketLayer(bucketL, k, o)
         IN /\ call' = [call EXCEPT ![c] =
                          [Log(c, r.evs) EXCEPT
                             !.pc = "done", !.found = r.ok, !.retL = r.e]]
            /\ task' = [task EXCEPT ![c] = LayerWriteBack(r.ok, k, r.e)]
    /\ UNCHANGED <<Tiers, mmtx, lmtx, History>>

(***************************************************************************)
(* LocalCache.localCacheLayer: called by cacheLayer, and run as a          *)
(* goroutine of its own by layerFromCache                                  *)
(***************************************************************************)
\* Mutant of Insert: the entry is not kept.
Insert_Lost(cache, k, e) == cache

\* `c.lcache[key] = e`
Insert(cache, k, e) == Put(cache, k, e)

\* c.lmtx.Lock(), in cacheLayer's call
CacheLayer_Lock(c) ==
    /\ call[c].pc = "l_lock"
    /\ CanLock(lmtx)
    /\ lmtx' = Lock(lmtx, CallG(c))
    /\ call' = [call EXCEPT ![c].pc = "l_insert"]
    /\ UNCHANGED <<Tiers, mmtx, task, History>>

\* The insert and c.lmtx.Unlock(), in cacheLayer's call
CacheLayer_Insert(c) ==
    /\ call[c].pc = "l_insert"
    /\ lcache' = Insert(lcache, call[c].key, call[c].argL)
    /\ lmtx' = Unlock(lmtx, CallG(c))
    /\ call' = [call EXCEPT ![c] = [Log(c, <<"local.insert">>) EXCEPT !.pc = "l_put"]]
    /\ UNCHANGED <<mfile, bucketM, bucketL, mmtx, task, History>>

\* c.lmtx.Lock(), on the goroutine layerFromCache started
LocalCacheLayer_Lock(c) ==
    /\ task[c].pc = "ready"
    /\ task[c].kind = "layer"
    /\ CanLock(lmtx)
    /\ lmtx' = Lock(lmtx, TaskG(c))
    /\ task' = [task EXCEPT ![c].pc = "locked"]
    /\ UNCHANGED <<Tiers, mmtx, call, History>>

\* The insert and c.lmtx.Unlock(), on that goroutine
LocalCacheLayer_Insert(c) ==
    /\ task[c].pc = "locked"
    /\ task[c].kind = "layer"
    /\ lcache' = Insert(lcache, task[c].key, task[c].e)
    /\ lmtx' = Unlock(lmtx, TaskG(c))
    /\ task' = [task EXCEPT ![c].pc = "done", ![c].res = "ok"]
    /\ UNCHANGED <<mfile, bucketM, bucketL, mmtx, call, History>>

(***************************************************************************)
(* cacheLayer, after the local insert                                      *)
(***************************************************************************)
\* json.Marshal(&entry), io.Copy(w, ...) and w.Close()
CacheLayer_Put(c) ==
    /\ call[c].pc = "l_put"
    /\ \E o \in {"ok", "copy.err", "close.err"} :
         /\ bucketL' = BucketWrite(bucketL, call[c].key, Marshal(call[c].argL), o)
         /\ call' = [call EXCEPT ![c] =
                       [Log(c, IF o = "ok" THEN <<"bucket.write">>
                                           ELSE <<o, "log.error">>)
                          EXCEPT !.pc = "done"]]
    /\ UNCHANGED <<mfile, lcache, bucketM, mmtx, lmtx, task, History>>

(***************************************************************************)
(* The system                                                              *)
(***************************************************************************)
\* A caller (the builder, one goroutine per request) issues call c.
Invoke(c) ==
    \/ InvokeManifestFromCache(c)
    \/ InvokeCacheManifest(c)
    \/ InvokeLayerFromCache(c)
    \/ InvokeCacheLayer(c)

\* Call c takes its next step.
Run(c) ==
    \/ ManifestFromLocalCache_RLock(c)
    \/ ManifestFromLocalCache_Read(c)
    \/ ManifestFromCache_Probe(c)
    \/ ManifestFromCache_Get(c)
    \/ CacheManifest_Put(c)
    \/ LayerFromLocalCache_RLock(c)
    \/ LayerFromLocalCache_Read(c)
    \/ LayerFromCache_Probe(c)
    \/ LayerFromCache_Get(c)
    \/ CacheLayer_Lock(c)
    \/ CacheLayer_Insert(c)
    \/ CacheLayer_Put(c)

\* The goroutine call c started takes its next step.
TaskStep(c) ==
    \/ LocalCacheManifest_Lock(c)
    \/ LocalCacheManifest_Open(c)
    \/ LocalCacheManifest_Write(c)
    \/ LocalCacheLayer_Lock(c)
    \/ LocalCacheLayer_Insert(c)

Next == \E c \in Calls : Invoke(c) \/ Run(c) \/ TaskStep(c)

Spec == Init /\ [][Next]_vars

\* A step of some goroutine of the cache.
Progress == \E c \in Calls : Run(c) \/ TaskStep(c)

\* The Go scheduler keeps running goroutines while one is runnable, and
\* every bucket call returns; nothing obliges the builder to issue a call.
Fairness == WF_vars(Progress)

FairSpec == Spec /\ Fairness

(***************************************************************************)
(* Vocabulary of the properties                                            *)
(***************************************************************************)
Done(c) == call[c].pc = "done"

\* Call c went through event ev.
Did(c, ev) == \E i \in DOMAIN call[c].trace : call[c].trace[i] = ev

IsFetchManifest(c, k) == call[c].op = "manifestFromCache" /\ call[c].key = k
IsStoreManifest(c, k, m) ==
    call[c].op = "cacheManifest" /\ call[c].key = k /\ call[c].argM = m
IsFetchLayer(c, k) == call[c].op = "layerFromCache" /\ call[c].key = k
IsStoreLayer(c, k, e) ==
    call[c].op = "cacheLayer" /\ call[c].key = k /\ call[c].argL = e

\* The result (m, true) of a manifest fetch, (e, true) of a layer fetch, and
\* not-found.
ReturnsManifest(c, m) == Done(c) /\ call[c].found /\ call[c].retM = m
ReturnsLayer(c, e) == Done(c) /\ call[c].found /\ call[c].retL = e
ReturnsNotFound(c) == Done(c) /\ ~call[c].found

\* The I/O failures a call can meet, and those of the goroutine it started.
LocalReadFailures == {"open.err", "readall.err"}
BucketReadFailures ==
    {"probe.err", "newreader.err", "bucket.readall.err", "bucket.copy.err",
     "unmarshal.err"}
BucketWriteFailures == {"copy.err", "close.err"}
LocalReadFailed(c) == \E ev \in LocalReadFailures : Did(c, ev)
BucketReadFailed(c) == \E ev \in BucketReadFailures : Did(c, ev)
BucketWriteFailed(c) == \E ev \in BucketWriteFailures : Did(c, ev)
LocalWriteFailed(c) == task[c].res \in {"open.err", "write.err"}

\* The local write call c scheduled has run to its end.
LocalWriteCompleted(c) == task[c].pc = "done"
LocalWriteScheduled(c) == task[c].pc # "none"

\* Another call than s and f writes, or has a goroutine that writes, key k.
OtherWriter(s, f, k) ==
    \E d \in Calls \ {s, f} :
        call[d].key = k /\ call[d].op \in {"cacheManifest", "manifestFromCache"}

(***************************************************************************)
(* C1  Round trip                                                          *)
(***************************************************************************)
\* C1 as stated: when cacheManifest(k, p) had returned and the local write it
\* scheduled had completed before manifestFromCache(k) was called, that call
\* returns (p, true).
C1_RoundTrip_AsStated ==
    \A s, f \in Calls : \A k \in Keys, p \in Payloads :
        ( /\ IsStoreManifest(s, k, p)
          /\ IsFetchManifest(f, k)
          /\ s \in call[f].settled
          /\ ~OtherWriter(s, f, k)
          /\ Done(f) )
        => ReturnsManifest(f, p)

\* C1 amended: the same, provided the scheduled local write succeeded and
\* the local read of the fetch does not fail.
C1_RoundTrip ==
    \A s, f \in Calls : \A k \in Keys, p \in Payloads :
        ( /\ IsStoreManifest(s, k, p)
          /\ IsFetchManifest(f, k)
          /\ s \in call[f].settled
          /\ ~OtherWriter(s, f, k)
          /\ task[s].res = "ok"
          /\ ~LocalReadFailed(f)
          /\ Done(f) )
        => ReturnsManifest(f, p)

\* A store whose bucket write failed and whose local write succeeded,
\* followed by a fetch of the key that returns the payload.
C1_Witness ==
    \E s, f \in Calls : \E k \in Keys, p \in Payloads :
        /\ IsStoreManifest(s, k, p)
        /\ IsFetchManifest(f, k)
        /\ s \in call[f].settled
        /\ task[s].res = "ok"
        /\ BucketWriteFailed(s)
        /\ ~LocalReadFailed(f)
        /\ ReturnsManifest(f, p)

(***************************************************************************)
(* C2  Miss, then store, then hit                                          *)
(***************************************************************************)
\* No manifest is cached anywhere and none is being stored.
NoManifestAnywhere ==
    /\ seedM = EmptyMap
    /\ \A d \in Calls : call[d].op # "cacheManifest"

C2_MissOnEmpty ==
    \A f \in Calls : \A k \in Keys :
        (IsFetchManifest(f, k) /\ Done(f) /\ NoManifestAnywhere)
        => ReturnsNotFound(f)

LocalManifestIs(k, m) == k \in DOMAIN mfile /\ mfile[k] = m /\ mmtx.w = {}

\* Call f is a manifestFromCache that found no file of its key and returned
\* (m, true) from the bucket, m being call[f].retM.
DurableHit(f) ==
    /\ call[f].op = "manifestFromCache"
    /\ Did(f, "open.enoent")
    /\ Did(f, "bucket.read")
    /\ Done(f)
    /\ call[f].found

\* No other call stores a manifest under the key of f.
NoStoreBeside(f) ==
    \A d \in Calls \ {f} :
        call[d].key = call[f].key => call[d].op # "cacheManifest"

\* C3 as stated: if such a hit (k, m) is returned, and no store for k
\* interferes, then at some later point the local cache holds m under k.
C3_WriteBack_AsStated ==
    \A f \in Calls :
        <>[](DurableHit(f) /\ NoStoreBeside(f))
        => <>(DurableHit(f) /\ LocalManifestIs(call[f].key, call[f].retM))

\* The write-back of call f completes in this step, its file write having
\* succeeded.
WriteBackSucceeds(f) ==
    /\ ~LocalWriteCompleted(f)
    /\ LocalWriteCompleted(f)'
    /\ task[f].res' = "ok"

\* C3 amended: after such a hit (k, m) the write-back eventually completes,
\* and when it completes with its file write having succeeded, the local
\* cache holds m under k.
C3_WriteBack ==
    /\ \A f \in Calls : DurableHit(f) ~> LocalWriteCompleted(f)
    /\ [][\A f \in Calls :
            (DurableHit(f) /\ WriteBackSucceeds(f))
            => LocalManifestIs(call[f].key, call[f].retM)']_vars

\* The write-back of a bucket hit has succeeded and the file holds the payload.
C3_Witness ==
    \E f \in Calls :
        /\ DurableHit(f)
        /\ LocalWriteCompleted(f)
        /\ task[f].res = "ok"
        /\ LocalManifestIs(call[f].key, call[f].retM)

(***************************************************************************)
(* C4  Tier independence                                                   *)
(***************************************************************************)
\* The bucket read of call f failed after a successful probe.
BucketReadFailedAfterProbe(f) ==
    /\ Did(f, "probe.ok")
    /\ Did(f, "newreader.err") \/ Did(f, "bucket.readall.err")

\* C4: a manifestFromCache(k) that misses locally, whose probe succeeds and
\* whose bucket read fails, returns not-found and schedules no local write:
\* it started no goroutine, so nothing of it touches the file of k.
C4_TierIndependence ==
    \A f \in Calls : \A k \in Keys :
        (IsFetchManifest(f, k) /\ BucketReadFailedAfterProbe(f))
        => /\ ReturnsNotFound(f)
           /\ call[f].retM = Nil
           /\ ~LocalWriteScheduled(f)
           /\ ~Did(f, "go")

\* Such a call has returned, the bucket holding the object and the local
\* directory still without the file.
C4_Witness ==
    \E f \in Calls : \E k \in Keys :
        /\ IsFetchManifest(f, k)
        /\ BucketReadFailedAfterProbe(f)
        /\ Done(f)
        /\ k \in DOMAIN bucketM
        /\ k \notin DOMAIN mfile

(***************************************************************************)
(* C5  Key isolation                                                       *)
(***************************************************************************)
\* The entries cached under key k: the one the bucket held at start, and
\* those the cacheLayer calls carry.
LayersStoredUnder(k) ==
    {Unmarshal(seedL[x]).entry : x \in {y \in DOMAIN seedL : y = k /\ Unmarshal(seedL[y]).ok}}
    \cup {call[d].argL : d \in {x \in Calls : call[x].op = "cacheLayer" /\ call[x].key = k}}

\* Call c, or the goroutine it started, has steps left.
Unfinished(c) ==
    \/ call[c].pc \notin {"idle", "done"}
    \/ task[c].pc \notin {"none", "done"}

\* C5: for a cacheLayer(k1, e1) and a layerFromCache(k2) with k1 # k2, in any
\* interleaving, the fetch returns only an entry cached under k2 (or
\* not-found), and while either has steps left one of them can take a step.
C5_KeyIsolation ==
    \A s, f \in Calls : \A k1, k2 \in Keys, e1 \in Entries :
        (IsStoreLayer(s, k1, e1) /\ IsFetchLayer(f, k2) /\ k1 # k2)
        => /\ (Done(f) /\ call[f].found) => call[f].retL \in LayersStoredUnder(k2)
           /\ (Unfinished(s) \/ Unfinished(f))
              => ENABLED (Run(s) \/ Run(f) \/ TaskStep(s) \/ TaskStep(f))

\* The fetch of k2 was called while the store under k1 was running, the store
\* has inserted its entry, and the fetch returned the entry cached under k2.
C5_Witness ==
    \E s, f \in Calls : \E k1, k2 \in Keys, e1 \in Entries :
        /\ IsStoreLayer(s, k1, e1) /\ IsFetchLayer(f, k2) /\ k1 # k2
        /\ s \notin call[f].returned
        /\ f \notin call[s].returned
        /\ k1 \in DOMAIN lcache
        /\ Done(f) /\ call[f].found
        /\ call[f].retL # e1

(***************************************************************************)
(* C6  Idempotent overwrite                                                *)
(***************************************************************************)
\* Two cacheManifest(k, p) calls have returned and both local writes have
\* run to their end, no other call touching k.
BothStored(s1, s2, k, p) ==
    /\ s1 # s2
    /\ IsStoreManifest(s1, k, p) /\ IsStoreManifest(s2, k, p)
    /\ Done(s1) /\ Done(s2)
    /\ LocalWriteCompleted(s1) /\ LocalWriteCompleted(s2)
    /\ \A d \in Calls \ {s1, s2} : call[d].key # k

HoldsExactly(f, k, p) == k \in DOMAIN f /\ f[k] = p

\* C6 as stated: then the local tier and the bucket each hold exactly p
\* under k.
C6_Idempotent_AsStated ==
    \A s1, s2 \in Calls : \A k \in Keys, p \in Payloads :
        BothStored(s1, s2, k, p)
        => HoldsExactly(mfile, k, p) /\ HoldsExactly(bucketM, k, p)

\* C6 amended: then the bucket holds exactly p under k if one of the two
\* bucket writes succeeded, and the local tier holds exactly p under k if one
\* of the two local writes succeeded and neither broke off after truncating
\* the file.
C6_Idempotent ==
    \A s1, s2 \in Calls : \A k \in Keys, p \in Payloads :
        BothStored(s1, s2, k, p)
        => /\ (~BucketWriteFailed(s1) \/ ~BucketWriteFailed(s2))
              => HoldsExactly(bucketM, k, p)
           /\ ( /\ task[s1].res = "ok" \/ task[s2].res = "ok"
                /\ task[s1].res # "write.err" /\ task[s2].res # "write.err" )
              => HoldsExactly(mfile, k, p)

\* Two overlapping stores of the same (k, p), finished, one local write and
\* one bucket write having failed, both tiers holding p.
C6_Witness ==
    \E s1, s2 \in Calls : \E k \in Keys, p \in Payloads :
        /\ BothStored(s1, s2, k, p)
        /\ s1 \notin call[s2].returned /\ s2 \notin call[s1].returned
        /\ BucketWriteFailed(s1) /\ ~BucketWriteFailed(s2)
        /\ task[s1].res = "ok" /\ task[s2].res = "open.err"
        /\ HoldsExactly(mfile, k, p) /\ HoldsExactly(bucketM, k, p)

(***************************************************************************)
(* C7  Layer round trip                                                    *)
(***************************************************************************)
\* C7: a layerFromCache(k) called after cacheLayer(k, e) returned, no other
\* call writing k, returns (e, true), whatever became of the bucket write.
C7_LayerRoundTrip ==
    \A s, f \in Calls : \A k \in Keys, e \in Entries :
        ( /\ IsStoreLayer(s, k, e)
          /\ IsFetchLayer(f, k)
          /\ s \in call[f].returned
          /\ \A d \in Calls \ {s, f} : call[d].key # k
          /\ Done(f) )
        => ReturnsLayer(f, e)

\* Such a fetch has returned the entry although the bucket write failed.
C7_Witness ==
    \E s, f \in Calls : \E k \in Keys, e \in Entries :
        /\ IsStoreLayer(s, k, e)
        /\ IsFetchLayer(f, k)
        /\ s \in call[f].returned
        /\ BucketWriteFailed(s)
        /\ k \notin DOMAIN bucketL
        /\ ReturnsLayer(f, e)

(***************************************************************************)
(* C8  No error propagation                                                *)
(***************************************************************************)
\* Where a call can be: not yet issued, at a statement of its function, or
\* returned.  There is no other way out of a call.
Statements ==
    {"m_rlock", "m_read", "m_probe", "m_get", "m_put",
     "l_rlock", "l_read", "l_probe", "l_get", "l_lock", "l_insert", "l_put"}

IsFetch(c) == call[c].op \in {"manifestFromCache", "layerFromCache"}
IsStore(c) == call[c].op \in {"cacheManifest", "cacheLayer"}

\* Call c met an I/O failure.
MetFailure(c) == LocalReadFailed(c) \/ BucketReadFailed(c) \/ BucketWriteFailed(c)

\* C8: whatever fails, a call is at a statement or has returned; after a
\* failure it returns or goes on to its next statement; a fetch returns
\* (value, true) or (nil, false) and a store returns nothing; a failed local
\* write ends its goroutine with the lock released.
C8_NoErrorPropagation ==
    \A c \in Calls :
        /\ call[c].pc \in Statements \cup {"idle", "done"}
        /\ (MetFailure(c) /\ ~Done(c)) => ENABLED Run(c)
        /\ (Done(c) /\ IsFetch(c) /\ ~call[c].found)
           => call[c].retM = Nil /\ call[c].retL = ZeroEntry
        /\ (Done(c) /\ IsStore(c))
           => ~call[c].found /\ call[c].retM = Nil /\ call[c].retL = ZeroEntry
        /\ LocalWriteFailed(c)
           => LocalWriteCompleted(c) /\ TaskG(c) \notin mmtx.w \cup lmtx.w

\* A fetch whose local read and bucket read both failed has returned
\* not-found, beside a store whose bucket write and local write both failed.
C8_Witness ==
    \E c, d \in Calls :
        /\ IsFetch(c) /\ LocalReadFailed(c) /\ BucketReadFailed(c)
        /\ ReturnsNotFound(c)
        /\ IsStore(d) /\ Done(d) /\ BucketWriteFailed(d) /\ LocalWriteFailed(d)

(***************************************************************************)
(* C9  Content identity                                                    *)
(***************************************************************************)
\* Everything cached under k carries the same content: what the bucket held
\* at start (a complete object), and what the store calls carry.
ManifestsIssued(k) ==
    {seedM[x] : x \in {y \in DOMAIN seedM : y = k}}
    \cup {call[d].argM : d \in {x \in Calls : call[x].op = "cacheManifest" /\ call[x].key = k}}

SameContent(k) ==
    /\ Cardinality(ManifestsIssued(k)) <= 1
    /\ Cardinality(LayersStoredUnder(k)) <= 1
    /\ k \in DOMAIN seedL => Unmarshal(seedL[k]).ok

\* C9: in every state, for every key whose stores carry the same content,
\* when the local tier (no write being in progress) and the bucket both hold
\* a value under the key, the two are equal.
C9_ContentIdentity ==
    \A k \in Keys :
        SameContent(k)
        => /\ (k \in DOMAIN mfile /\ mmtx.w = {} /\ k \in DOMAIN bucketM)
              => mfile[k] = bucketM[k]
           /\ (k \in DOMAIN lcache /\ k \in DOMAIN bucketL)
              => Marshal(lcache[k]) = bucketL[k]

(***************************************************************************)
(* C10  Tier ordering of a fetch                                           *)
(***************************************************************************)
LocalMissEvents == {"open.enoent", "open.err", "readall.err", "local.miss"}
BucketGetEvents ==
    {"bucket.read", "newreader.err", "bucket.readall.err", "bucket.copy.err"}
BucketEvents == {"probe.ok", "probe.err", "probe.absent"} \cup BucketGetEvents

\* In the trace of call c every event of `later` comes after one of `earlier`.
OnlyAfter(c, later, earlier) ==
    \A j \in DOMAIN call[c].trace :
        call[c].trace[j] \in later
        => \E i \in 1..(j - 1) : call[c].trace[i] \in earlier

\* C10: a fetch contacts the bucket only after its local lookup missed; on a
\* local hit it returns the hit with no bucket call; it reads the object only
\* after the probe succeeded; when the probe reports absent or fails it
\* returns not-found with no bucket read and no local write.
C10_TierOrdering ==
    \A c \in Calls :
        IsFetch(c)
        => /\ OnlyAfter(c, BucketEvents, LocalMissEvents)
           /\ Did(c, "local.hit")
              => /\ Done(c) /\ call[c].found
                 /\ \A ev \in BucketEvents : ~Did(c, ev)
           /\ OnlyAfter(c, BucketGetEvents, {"probe.ok"})
           /\ (Did(c, "probe.absent") \/ Did(c, "probe.err"))
              => /\ ReturnsNotFound(c)
                 /\ \A ev \in BucketGetEvents : ~Did(c, ev)
                 /\ ~LocalWriteScheduled(c)

\* One fetch went to the bucket after its local miss and read the object
\* after the probe, and a later fetch of the key returned the local hit.
C10_Witness ==
    \E c, d \in Calls :
        /\ IsFetch(c) /\ Did(c, "probe.ok") /\ Did(c, "bucket.read") /\ Done(c)
        /\ IsFetch(d) /\ call[d].key = call[c].key /\ call[d].op = call[c].op
        /\ call[d].trace = <<"local.hit">>
        /\ call[d].found

(***************************************************************************)
(* C11  Reader-writer exclusion per region                                 *)
(***************************************************************************)
\* The goroutines inside localCacheManifest (between Lock and Unlock) and
\* inside manifestFromLocalCache (between RLock and RUnlock), and the same for
\* localCacheLayer and layerFromLocalCache.
ManifestWriters ==
    {TaskG(c) : c \in {x \in Calls : task[x].kind = "manifest"
                                      /\ task[x].pc \in {"locked", "opened"}}}
ManifestReaders == {CallG(c) : c \in {x \in Calls : call[x].pc = "m_read"}}
LayerWriters ==
    {TaskG(c) : c \in {x \in Calls : task[x].kind = "layer" /\ task[x].pc = "locked"}}
    \cup {CallG(c) : c \in {x \in Calls : call[x].pc = "l_insert"}}
LayerReaders == {CallG(c) : c \in {x \in Calls : call[x].pc = "l_read"}}

\* One writer at most, and no reader beside a writer.
Exclusive(writers, readers) ==
    /\ Cardinality(writers) <= 1
    /\ writers # {} => readers = {}

\* A file of the manifest directory is being written: truncated, its bytes
\* not yet written.
WriteInProgress == \E c \in Calls : task[c].pc = "opened"

\* C11: in every state, in each region, a goroutine inside the write operation
\* excludes every other goroutine inside the write or the read operation,
\* whatever the keys; a reader is not kept out by the readers inside; and no
\* reader is inside while a file is being written.
C11_RWExclusion ==
    /\ Exclusive(ManifestWriters, ManifestReaders)
    /\ Exclusive(LayerWriters, LayerReaders)
    /\ \A c \in Calls :
         /\ (call[c].pc = "m_rlock" /\ ManifestWriters = {})
            => ENABLED ManifestFromLocalCache_RLock(c)
         /\ (call[c].pc = "l_rlock" /\ LayerWriters = {})
            => ENABLED LayerFromLocalCache_RLock(c)
    /\ WriteInProgress => ManifestReaders = {}

\* A goroutine is inside localCacheManifest, the file of k truncated, while a
\* manifestFromCache of the same key waits at its RLock.
C11_Witness ==
    \E c, d \in Calls :
        /\ task[c].pc = "opened"
        /\ call[d].pc = "m_rlock"
        /\ call[d].key = task[c].key
        /\ ~ENABLED ManifestFromLocalCache_RLock(d)

(***************************************************************************)
(* C12  Region independence                                                *)
(***************************************************************************)
\* Call c, or the goroutine it started, is at the Lock or RLock of a region.
AtManifestRLock(c) == call[c].pc = "m_rlock"
AtManifestLock(c) == task[c].kind = "manifest" /\ task[c].pc = "ready"
AtLayerRLock(c) == call[c].pc = "l_rlock"
AtLayerLock(c) == call[c].pc = "l_lock"
AtLayerTaskLock(c) == task[c].kind = "layer" /\ task[c].pc = "ready"

\* C12: a goroutine at the lock of one region is kept waiting only by
\* goroutines inside that region, never by a holder of the other region's
\* lock: a layer reader enters unless a layer writer is inside, a layer writer
\* enters unless a layer reader or writer is inside, and the same for the
\* manifest region.
C12_RegionIndependence ==
    \A c \in Calls :
        /\ (AtLayerRLock(c) /\ LayerWriters = {})
           => ENABLED LayerFromLocalCache_RLock(c)
        /\ (AtLayerLock(c) /\ LayerWriters = {} /\ LayerReaders = {})
           => ENABLED CacheLayer_Lock(c)
        /\ (AtLayerTaskLock(c) /\ LayerWriters = {} /\ LayerReaders = {})
           => ENABLED LocalCacheLayer_Lock(c)
        /\ (AtManifestRLock(c) /\ ManifestWriters = {})
           => ENABLED ManifestFromLocalCache_RLock(c)
        /\ (AtManifestLock(c) /\ ManifestWriters = {} /\ ManifestReaders = {})
           => ENABLED LocalCacheManifest_Lock(c)

\* A layer reader is about to enter while another goroutine holds the
\* manifest write lock.
C12_Witness ==
    \E c, d \in Calls :
        /\ AtLayerRLock(c)
        /\ mmtx.w = {TaskG(d)}
        /\ ENABLED LayerFromLocalCache_RLock(c)

(***************************************************************************)
(* C13  Non-blocking manifest population                                   *)
(***************************************************************************)
\* Call c schedules a local manifest write: a cacheManifest, or a
\* manifestFromCache that read the object from the bucket.
SchedulesManifestWrite(c) ==
    \/ call[c].op = "cacheManifest"
    \/ call[c].op = "manifestFromCache" /\ Did(c, "bucket.read")

\* C13: the goroutine of a call never takes the manifest write lock; the
\* local write of a cacheManifest, and of a manifestFromCache after a bucket
\* hit, is on a goroutine of its own once the call has returned; and after
\* its local lookup the caller never waits: a cacheManifest that has not
\* returned, and a manifestFromCache at its bucket calls, can always take
\* their next step, whoever holds the manifest lock.
C13_NonBlocking ==
    \A c \in Calls :
        /\ CallG(c) \notin mmtx.w
        /\ (call[c].op = "cacheManifest" /\ ~Done(c)) => ENABLED Run(c)
        /\ call[c].pc \in {"m_probe", "m_get"} => ENABLED Run(c)
        /\ (Done(c) /\ SchedulesManifestWrite(c))
           => LocalWriteScheduled(c) /\ task[c].kind = "manifest"

\* A cacheManifest has returned with its local write still waiting for the
\* lock, which the write-back of a manifestFromCache that returned its bucket
\* hit holds.
C13_Witness ==
    \E c, d \in Calls :
        /\ call[c].op = "cacheManifest" /\ Done(c)
        /\ task[c].pc = "ready"
        /\ DurableHit(d)
        /\ mmtx.w = {TaskG(d)}
        /\ ~ENABLED LocalCacheManifest_Lock(c)

(***************************************************************************)
(* C14  Layer fetch from the bucket                                        *)
(***************************************************************************)
\* Call f is a layerFromCache that missed locally and returned the entry it
\* decoded from the bucket's object, call[f].retL.
LayerDurableHit(f) ==
    /\ call[f].op = "layerFromCache"
    /\ Did(f, "local.miss")
    /\ Did(f, "bucket.read")
    /\ ~Did(f, "unmarshal.err")
    /\ Done(f)

\* The read of the bucket's object by call f failed.
LayerReadFailed(f) == Did(f, "newreader.err") \/ Did(f, "bucket.copy.err")

\* Call f returns from its read of the bucket's object in this step.
ReturnsFromLayerGet(f) == call[f].pc = "l_get" /\ call[f].pc' = "done"

\* C14: a layerFromCache(k) that missed locally and reads the object of k
\* returns (e, true) and starts the local write of e when the bytes decode to
\* e; when they do not decode, or the read fails, it returns not-found; a
\* layerFromCache that returned not-found started no local write; after a
\* bucket hit the local write completes, and when it completes the local map
\* holds e under k.
C14_LayerDurableFetch ==
    /\ [][\A f \in Calls :
            ReturnsFromLayerGet(f)
            => LET k == call[f].key
                   u == Unmarshal(bucketL[k])
               IN IF ~LayerReadFailed(f)' /\ u.ok
                  THEN /\ call[f].found' /\ call[f].retL' = u.entry
                       /\ task[f]' = LayerTask(k, u.entry)
                  ELSE /\ ~call[f].found'
                       /\ task[f]' = NoTask]_vars
    /\ [](\A f \in Calls :
            (call[f].op = "layerFromCache" /\ ReturnsNotFound(f))
            => ~LocalWriteScheduled(f))
    /\ \A f \in Calls : LayerDurableHit(f) ~> LocalWriteCompleted(f)
    /\ [][\A f \in Calls :
            (LayerDurableHit(f) /\ WriteBackSucceeds(f))
            => /\ call[f].key \in DOMAIN lcache'
               /\ lcache'[call[f].key] = call[f].retL]_vars

\* A layerFromCache(k) returned the entry the bucket held, its goroutine has
\* run, and the local map holds the entry under k.
C14_Witness ==
    \E f \in Calls :
        /\ LayerDurableHit(f)
        /\ call[f].found
        /\ call[f].retL = Unmarshal(seedL[call[f].key]).entry
        /\ LocalWriteCompleted(f)
        /\ HoldsExactly(lcache, call[f].key, call[f].retL)

(***************************************************************************)
(* C15  Miss classification in manifestFromLocalCache                      *)
(***************************************************************************)
\* In the trace of call c every event ev is followed at once by the log
\* statement of severity sev.
LoggedAt(c, ev, sev) ==
    \A i \in DOMAIN call[c].trace :
        call[c].trace[i] = ev
        => (i + 1) \in DOMAIN call[c].trace /\ call[c].trace[i + 1] = sev

\* C15: in manifestFromLocalCache an absent file is a miss logged at debug
\* severity, and every other failure of the local read (the file exists and
\* cannot be opened, or cannot be read) is a miss logged at error severity.
C15_MissClassification ==
    \A c \in Calls :
        call[c].op = "manifestFromCache"
        => /\ LoggedAt(c, "open.enoent", "log.debug")
           /\ LoggedAt(c, "open.err", "log.error")
           /\ LoggedAt(c, "readall.err", "log.error")
           /\ (\E ev \in {"open.enoent", "open.err", "readall.err"} : Did(c, ev))
              => ~Did(c, "local.hit")

(***************************************************************************)
(* C16  No reconciliation of write order                                   *)
(***************************************************************************)
\* Call c completes its bucket write in this step.
BucketWriteLands(c) ==
    /\ call[c].pc = "m_put"
    /\ call[c].pc' = "done"
    /\ Did(c, "bucket.write")'

\* The goroutine of call c completes its file write in this step.
LocalWriteLands(c) ==
    /\ task[c].kind = "manifest"
    /\ task[c].pc = "opened"
    /\ task[c].res' = "ok"

\* Two cacheManifest calls of key k with the payloads p1 and p2, neither
\* called after the other returned, have returned, their goroutines have
\* ended and all four writes succeeded.
ConcurrentStoresDone(s1, s2, k, p1, p2) ==
    /\ s1 # s2
    /\ IsStoreManifest(s1, k, p1) /\ IsStoreManifest(s2, k, p2)
    /\ s1 \notin call[s2].returned /\ s2 \notin call[s1].returned
    /\ Done(s1) /\ Done(s2)
    /\ task[s1].res = "ok" /\ task[s2].res = "ok"
    /\ ~BucketWriteFailed(s1) /\ ~BucketWriteFailed(s2)

\* C16: the last writer wins in each tier, one tier not looking at the other:
\* a bucket write that lands leaves its payload in the bucket under its key
\* and the files as they were, whatever the bucket and the files held; a file
\* write that lands leaves its payload in the file and the bucket as it was;
\* so after two concurrent cacheManifest(k, p1) and cacheManifest(k, p2) each
\* tier holds p1 or p2 under k, and nothing makes the tiers agree.
C16_LastWriterWins ==
    /\ [][\A c \in Calls :
            /\ BucketWriteLands(c)
               => /\ HoldsExactly(bucketM', call[c].key, call[c].argM)
                  /\ mfile' = mfile
            /\ LocalWriteLands(c)
               => /\ HoldsExactly(mfile', task[c].key, task[c].m)
                  /\ bucketM' = bucketM]_vars
    /\ [](\A s1, s2 \in Calls : \A k \in Keys, p1, p2 \in Payloads :
            ConcurrentStoresDone(s1, s2, k, p1, p2)
            => /\ k \in DOMAIN mfile /\ mfile[k] \in {p1, p2}
               /\ k \in DOMAIN bucketM /\ bucketM[k] \in {p1, p2})

\* Two concurrent stores of different payloads under k are finished, all
\* writes having succeeded, and the file holds one payload while the bucket
\* holds the other.
C16_Witness ==
    \E s1, s2 \in Calls : \E k \in Keys, p1, p2 \in Payloads :
        /\ p1 # p2
        /\ ConcurrentStoresDone(s1, s2, k, p1, p2)
        /\ mmtx = FreeMutex
        /\ HoldsExactly(mfile, k, p1)
        /\ HoldsExactly(bucketM, k, p2)

(***************************************************************************)
(* C17  Termination and deadlock freedom                                   *)
(***************************************************************************)
\* The locks goroutine g holds.
HoldsManifestLock(g) == g \in mmtx.w \cup mmtx.r
HoldsLayerLock(g) == g \in lmtx.w \cup lmtx.r
HoldsALock(g) == HoldsManifestLock(g) \/ HoldsLayerLock(g)

\* C17: under fair scheduling, every bucket call returning, every call that
\* was issued returns, every goroutine that was started ends with its lock
\* released, and in no state are all unfinished goroutines blocked.
C17_Termination ==
    /\ \A c \in Calls : (call[c].pc # "idle") ~> Done(c)
    /\ \A c \in Calls :
         LocalWriteScheduled(c) ~> (LocalWriteCompleted(c) /\ ~HoldsALock(TaskG(c)))
    /\ []((\E c \in Calls : Unfinished(c)) => ENABLED Progress)

\* Both calls have returned and every goroutine has ended, one of them after
\* waiting for the manifest lock behind a local write that failed.
C17_Witness ==
    \E c, d \in Calls :
        /\ c # d
        /\ Done(c) /\ Done(d)
        /\ LocalWriteCompleted(c) /\ LocalWriteFailed(c)
        /\ LocalWriteCompleted(d) /\ task[d].kind = "manifest"
        /\ call[d].key = call[c].key
        /\ d \notin call[c].returned /\ c \notin call[d].returned
        /\ mmtx = FreeMutex /\ lmtx = FreeMutex

(***************************************************************************)
(* C18  Lock discipline                                                    *)
(***************************************************************************)
\* The statements of a call that are bucket calls: the probe, the read, the
\* write.
BucketStatements == {"m_probe", "m_get", "m_put", "l_probe", "l_get", "l_put"}

\* C18: no goroutine holds both locks; the goroutine of a call holds no lock
\* at a bucket call or once it has returned (the goroutines started with `go`
\* make no bucket call); a goroutine started with `go` holds no lock before
\* its Lock and none once it has ended, whether its write succeeded or not.
C18_LockDiscipline ==
    \A c \in Calls :
        /\ ~(HoldsManifestLock(CallG(c)) /\ HoldsLayerLock(CallG(c)))
        /\ ~(HoldsManifestLock(TaskG(c)) /\ HoldsLayerLock(TaskG(c)))
        /\ call[c].pc \in BucketStatements \cup {"idle", "done"}
           => ~HoldsALock(CallG(c))
        /\ task[c].pc \in {"none", "ready", "done"} => ~HoldsALock(TaskG(c))

\* A manifestFromCache whose local read failed is at its bucket read, and the
\* goroutine of a cacheManifest has ended on a failed write; no lock is held.
C18_Witness ==
    \E c, d \in Calls :
        /\ call[c].pc = "m_get" /\ Did(c, "readall.err")
        /\ task[d].pc = "done" /\ task[d].res = "write.err"
        /\ mmtx = FreeMutex

(***************************************************************************)
(* C19  Payload integrity                                                  *)
(***************************************************************************)
\* C19: a manifestFromCache(k) that returns found = true returns a complete
\* payload that was passed to cacheManifest(k, .) or that the bucket held
\* under k, also after a local write of k failed.
C19_PayloadIntegrity ==
    \A f \in Calls : \A k \in Keys :
        (IsFetchManifest(f, k) /\ Done(f) /\ call[f].found)
        => call[f].retM \in ManifestsIssued(k)

(***************************************************************************)
(* C20  Fetches never modify the bucket                                    *)
(***************************************************************************)
\* Call c, or the goroutine it started, takes this step.
Steps(c) == call[c]' # call[c] \/ task[c]' # task[c]

\* Map f is the same before and after the step but for key k.
SameBut(f, k) ==
    \A x \in Keys \ {k} :
        /\ (x \in DOMAIN f') = (x \in DOMAIN f)
        /\ x \in DOMAIN f => f'[x] = f[x]

\* C20: a step of a manifestFromCache or layerFromCache, or of the goroutine
\* it started, leaves the bucket as it was and changes the local tier under
\* the key of the call only, and only in its own region.
C20_FetchFrame ==
    [][\A c \in Calls :
         (Steps(c) /\ IsFetch(c)')
         => /\ bucketM' = bucketM
            /\ bucketL' = bucketL
            /\ SameBut(mfile, call[c].key')
            /\ SameBut(lcache, call[c].key')
            /\ call[c].op' = "manifestFromCache" => lcache' = lcache
            /\ call[c].op' = "layerFromCache" => mfile' = mfile]_vars

\* A manifestFromCache(k) went through the local miss, the probe, the bucket
\* read and its write-back: the bucket is as it was at the start, and the
\* local tier holds the file of k and nothing else.
C20_Witness ==
    \E f \in Calls :
        /\ DurableHit(f)
        /\ LocalWriteCompleted(f) /\ task[f].res = "ok"
        /\ bucketM = seedM /\ bucketL = seedL
        /\ DOMAIN mfile = {call[f].key}
        /\ lcache = EmptyMap

====
